---- MODULE Spec2Model ----
(***************************************************************************)
(* Remote chat session of qwen-llm-rs (src/src/api.rs): the message        *)
(* history of a ChatSession, the blocking and the streamed request of      *)
(* LlamaClient, the line decoder of the streamed response body and the     *)
(* ChatResponseStream wrapper that commits the assistant message.          *)
(* Local session (src/src/bindings.rs, and the same logic in               *)
(* src/src/main.rs): n_past, the KV cache, prompt evaluation and the       *)
(* token-by-token ResponseStream.                                          *)
(***************************************************************************)
EXTENDS Integers, Sequences, FiniteSets, TLC

\* Bounds of the model.
MaxMsgs == 3     \* a call starts only while the history is shorter than this
MaxLines == 2    \* lines of one streamed response body, in a session
MaxBody == 3     \* lines of one streamed response body, for the decoder alone
MaxEnds == 2     \* polls of one stream that return end-of-stream
MaxImages == 3   \* image paths of one user message, for prepare_user_message alone

VARIABLES
    messages,             \* ChatSession.messages
    phase,                \* "idle", or "streaming" while a ChatResponseStream borrows the session
    inner_pc,             \* where the try_stream! generator is suspended
    inner_pending,        \* the Content text the generator yields next (inner_pc = "content")
    accumulated_content,  \* ChatResponseStream.accumulated_content
    before,               \* history: messages when the last call was entered
    response,             \* history: the HTTP outcome the last call met
    last,                 \* history: the last operation and what it returned
    lines,                \* history: the body lines the decoder has read
    emitted,              \* history: the items the backend stream produced
    emittedSrc,           \* history: for each emitted item, the index of its line (0: of no line)
    observed,             \* history: the items ChatResponseStream returned
    ends,                 \* history: how often ChatResponseStream returned end-of-stream
    call,                 \* history: the arguments and the request of the last call
    n_past,               \* Session.n_past
    kv_cache,             \* the positions the KV cache of Session.context holds
    is_done,              \* ResponseStream.is_done
    sampler,              \* the tokens ResponseStream.sampler has accepted
    local_phase,          \* "idle", or "streaming" while a ResponseStream borrows the session
    local_last,           \* history: the last operation on the local session
    stream_base,          \* history: n_past when the live ResponseStream was made
    yielded               \* history: the fragments the live ResponseStream has yielded

remoteVars == <<messages, phase, inner_pc, inner_pending, accumulated_content,
                before, response, last, lines, emitted, emittedSrc, observed, ends, call>>

localVars == <<n_past, kv_cache, is_done, sampler, local_phase, local_last,
               stream_base, yielded>>

vars == <<remoteVars, localVars>>

-----------------------------------------------------------------------------
(* Values *)

\* Option<T>: None is <<>>, Some(x) is <<x>>.
None == <<>>
Some(x) == <<x>>
IsSome(o) == o # <<>>
Unwrap(o) == o[1]

\* LlamaError; status and body are meaningful for Api only.
LlamaError(kind, status, body) == [kind |-> kind, status |-> status, body |-> body]
NoError == LlamaError("none", 0, "")
Http == LlamaError("Http", 0, "")
Io == LlamaError("Io", 0, "")
Json == LlamaError("Json", 0, "")
Api(status, body) == LlamaError("Api", status, body)

\* Message with MessageContent::Text.
TextMessage(role, text) == [role |-> role, text |-> text, parts |-> <<>>]
\* Message with MessageContent::Parts.
PartsMessage(role, parts) == [role |-> role, text |-> "", parts |-> parts]
\* MessagePart::Text and MessagePart::ImageUrl.
TextPart(text) == [type |-> "text", text |-> text, mime |-> "", b64 |-> <<>>]
ImageUrlPart(mime, b64) == [type |-> "image_url", text |-> "", mime |-> mime, b64 |-> b64]

\* ChatEvent, and the Err item of the stream.
Item(kind, text, err) == [kind |-> kind, text |-> text, err |-> err]
Content(c) == Item("Content", c, NoError)
Reasoning(r) == Item("Reasoning", r, NoError)
ErrItem(e) == Item("Err", "", e)
NoItem == Item("none", "", NoError)

\* Poll<Option<Item>>.
Pending == [poll |-> "Pending", item |-> NoItem]
Ready(item) == [poll |-> "Item", item |-> item]
ReadyNone == [poll |-> "End", item |-> NoItem]

-----------------------------------------------------------------------------
(* The files the image paths name *)

\* tokio::fs::read: the bytes of a readable file.
fs_read(path) ==
    CASE path = "island.png" -> Some(<<137, 80, 78, 71, 13>>)
      [] path = "notes.bin" -> Some(<<1, 2>>)
      [] path = "photo.jpg" -> Some(<<255, 216, 255, 224>>)
      [] OTHER -> None

\* infer::get knowing no magic bytes.
infer_get_unknown(bytes) == None

\* infer::get: the MIME type of the magic bytes, if they are known.
infer_get(bytes) ==
    IF Len(bytes) > 3 /\ SubSeq(bytes, 1, 4) = <<137, 80, 78, 71>> THEN Some("image/png")
    ELSE IF Len(bytes) > 2 /\ SubSeq(bytes, 1, 3) = <<255, 216, 255>> THEN Some("image/jpeg")
    ELSE None

\* general_purpose::STANDARD.encode: 3 bytes give 4 sextets, padded with "=" (64).
RECURSIVE encode(_)
encode(bytes) ==
    IF Len(bytes) = 0 THEN <<>>
    ELSE IF Len(bytes) = 1 THEN
        <<bytes[1] \div 4, (bytes[1] % 4) * 16, 64, 64>>
    ELSE IF Len(bytes) = 2 THEN
        <<bytes[1] \div 4, (bytes[1] % 4) * 16 + bytes[2] \div 16,
          (bytes[2] % 16) * 4, 64>>
    ELSE
        <<bytes[1] \div 4, (bytes[1] % 4) * 16 + bytes[2] \div 16,
          (bytes[2] % 16) * 4 + bytes[3] \div 64, bytes[3] % 64>>
        \o encode(SubSeq(bytes, 4, Len(bytes)))

-----------------------------------------------------------------------------
(* The HTTP exchange *)

\* ChatFullResponse: choices[i].message.content is an Option<String>.
FullChoice(content) == [message |-> [content |-> content]]
ChatFullResponse(choices) == [choices |-> choices]

\* What the server and the network do with one request: whether send() gets a
\* response, its status, whether its body can be read to the end, the body's
\* text, and the ChatFullResponse the text is the JSON of (None if it is none).
Exchange(sent, status, readable, text, full) ==
    [sent |-> sent, status |-> status, readable |-> readable, text |-> text, full |-> full]
NoExchange == Exchange(FALSE, 0, FALSE, "", None)

ErrorExchanges ==
    { NoExchange,
      Exchange(TRUE, 500, TRUE, "overloaded", None),
      Exchange(TRUE, 500, FALSE, "overloaded", None),
      Exchange(TRUE, 404, TRUE, "", None) }

FullExchanges ==
    ErrorExchanges \cup
    { Exchange(TRUE, 200, TRUE, "<html>", None),
      Exchange(TRUE, 200, FALSE, "{..}", Some(ChatFullResponse(<<FullChoice(Some("hi"))>>))),
      Exchange(TRUE, 200, TRUE, "{..}", Some(ChatFullResponse(<<>>))),
      Exchange(TRUE, 200, TRUE, "{..}", Some(ChatFullResponse(<<FullChoice(None)>>))),
      Exchange(TRUE, 200, TRUE, "{..}", Some(ChatFullResponse(<<FullChoice(Some("hi"))>>))),
      Exchange(TRUE, 200, TRUE, "{..}",
               Some(ChatFullResponse(<<FullChoice(Some("yo")), FullChoice(Some("hi"))>>))) }

StreamExchanges ==
    ErrorExchanges \cup { Exchange(TRUE, 200, TRUE, "", None) }

\* is_success taking every status below 500 for a success.
is_success_below_500(status) == status >= 200 /\ status <= 499

\* StatusCode::is_success
is_success(status) == status >= 200 /\ status <= 299

\* Response::text().await.unwrap_or_default()
text_or_default(net) == IF net.readable THEN net.text ELSE ""

\* The Api error of a non-2xx response.
api_error(net) == Api(net.status, text_or_default(net))

\* LlamaClient::full_request: Ok(ChatFullResponse) or Err(LlamaError).
\* A reqwest::Error of send() or of json() becomes LlamaError::Http.
full_request(net) ==
    IF ~net.sent THEN [ok |-> FALSE, err |-> Http, value |-> ChatFullResponse(<<>>)]
    ELSE IF ~is_success(net.status) THEN
        [ok |-> FALSE, err |-> api_error(net), value |-> ChatFullResponse(<<>>)]
    ELSE IF ~net.readable \/ ~IsSome(net.full) THEN
        [ok |-> FALSE, err |-> Http, value |-> ChatFullResponse(<<>>)]
    ELSE [ok |-> TRUE, err |-> NoError, value |-> Unwrap(net.full)]

\* LlamaClient::stream_request up to the construction of the stream:
\* Ok(the stream over the response's lines) or Err(LlamaError).
stream_request(net) ==
    IF ~net.sent THEN [ok |-> FALSE, err |-> Http]
    ELSE IF ~is_success(net.status) THEN [ok |-> FALSE, err |-> api_error(net)]
    ELSE [ok |-> TRUE, err |-> NoError]

-----------------------------------------------------------------------------
(* The lines of a streamed body and their decoding *)

\* ChatChunk: choices[i].delta has two Option<String> fields.
ChunkDelta(reasoning_content, content) ==
    [reasoning_content |-> reasoning_content, content |-> content]
ChatChunk(deltas) == [choices |-> [i \in 1..Len(deltas) |-> [delta |-> deltas[i]]]]

\* One line of the body: whether white space surrounds it, its prefix, the text
\* after the prefix, and the ChatChunk that text is the JSON of (None if it is
\* none).
Line(ws, prefix, payload, chunk) ==
    [ws |-> ws, prefix |-> prefix, payload |-> payload, chunk |-> chunk]
DataLine(deltas) == Line(FALSE, "data: ", "{..}", Some(ChatChunk(deltas)))
DoneLine == Line(FALSE, "data: ", "[DONE]", None)

LineAlphabet ==
    { Line(FALSE, "", "", None),                         \* an empty line
      Line(TRUE, "", "", None),                          \* white space only
      Line(FALSE, ": ", "ping", None),                   \* no data line
      DoneLine,
      Line(FALSE, "data: ", "{oops", None),              \* malformed JSON
      DataLine(<<>>),                                    \* no choice
      DataLine(<<ChunkDelta(None, None)>>),
      DataLine(<<ChunkDelta(None, Some(""))>>),
      DataLine(<<ChunkDelta(None, Some("a"))>>),
      DataLine(<<ChunkDelta(Some("r"), None)>>),
      DataLine(<<ChunkDelta(Some("r"), Some("b"))>>) }

\* The lines a session's streams are made of.
SessionLines ==
    { Line(FALSE, "data: ", "{oops", None),
      DataLine(<<ChunkDelta(None, Some(""))>>),
      DataLine(<<ChunkDelta(None, Some("a"))>>),
      DataLine(<<ChunkDelta(Some("r"), Some("b"))>>) }

\* str::trim
trim(line) == [line EXCEPT !.ws = FALSE]
\* str::is_empty
is_empty(line) == ~line.ws /\ line.prefix = "" /\ line.payload = ""
\* str::strip_prefix("data: "): the rest of the line, if it has the prefix.
strip_prefix(line) ==
    IF line.prefix = "data: " THEN Some([payload |-> line.payload, chunk |-> line.chunk])
    ELSE None
\* serde_json::from_str::<ChatChunk>
from_str(data) == data.chunk

\* What lines.next_line() gives: a line, the end of the body, or an io::Error.
ReadLine(line) == [t |-> "line", line |-> line]
ReadEof == [t |-> "eof", line |-> DoneLine]
ReadErr == [t |-> "err", line |-> DoneLine]

\* The generator after one resumption: where it is suspended next, the
\* Content text it holds for its next yield, and what poll_next returns.
Gen(pc, pending, result) == [pc |-> pc, pending |-> pending, result |-> result]

\* try_fail as a plain yield of the error: the loop goes on with the next line.
try_fail_resume(e) == Gen("lines", "", Ready(ErrItem(e)))

\* A failed `?` inside try_stream!: the error is yielded, and the generator
\* returns when it is resumed.
try_fail(e) == Gen("failed", "", Ready(ErrItem(e)))

\* yield_delta with `else if` for the content: a delta yields one event at most.
yield_delta_either(delta) ==
    IF IsSome(delta.reasoning_content) THEN
        Gen("lines", "", Ready(Reasoning(Unwrap(delta.reasoning_content))))
    ELSE IF IsSome(delta.content) THEN
        Gen("lines", "", Ready(Content(Unwrap(delta.content))))
    ELSE Gen("lines", "", Pending)

\* The two yields for the first choice of a chunk, reasoning first; with
\* neither field the loop goes on to await the next line.
yield_delta(delta) ==
    IF IsSome(delta.reasoning_content) THEN
        IF IsSome(delta.content)
        THEN Gen("content", Unwrap(delta.content), Ready(Reasoning(Unwrap(delta.reasoning_content))))
        ELSE Gen("lines", "", Ready(Reasoning(Unwrap(delta.reasoning_content))))
    ELSE IF IsSome(delta.content) THEN
        Gen("lines", "", Ready(Content(Unwrap(delta.content))))
    ELSE Gen("lines", "", Pending)

\* The body of the `while let` loop for one line.
decode_line(raw) ==
    LET line == trim(raw) IN
    IF is_empty(line) \/ line = DoneLine THEN Gen("lines", "", Pending)
    ELSE IF IsSome(strip_prefix(line)) THEN
        LET chunk == from_str(Unwrap(strip_prefix(line))) IN
        IF ~IsSome(chunk) THEN try_fail(Json)
        ELSE IF Unwrap(chunk).choices # <<>>
             THEN yield_delta(Head(Unwrap(chunk).choices).delta)
             ELSE Gen("lines", "", Pending)
    ELSE Gen("lines", "", Pending)

\* One poll of the stream try_stream! builds: the generator runs from where it
\* is suspended to its next yield, to its next wait for a line, or to its end.
\* `rd` is what next_line() gives if the generator asks for a line.
inner_poll(pc, pending, rd) ==
    CASE pc = "done" -> Gen("done", "", ReadyNone)
      [] pc = "failed" -> Gen("done", "", ReadyNone)
      [] pc = "content" -> Gen("lines", "", Ready(Content(pending)))
      [] OTHER ->
            IF rd.t = "err" THEN try_fail(Io)
            ELSE IF rd.t = "eof" THEN Gen("done", "", ReadyNone)
            ELSE decode_line(rd.line)

-----------------------------------------------------------------------------
(* ChatSession *)

\* The turns a caller makes: a prompt and the paths of its images.
Turn(prompt, images) == [prompt |-> prompt, images |-> images]
Turns ==
    { Turn("p", <<>>),
      Turn("q", <<"island.png">>),
      Turn("q", <<"notes.bin", "missing.png">>) }

\* ChatSession::push_text
push_text(msgs, role, text) == Append(msgs, TextMessage(role, text))

\* The loop of prepare_user_message putting each image part right after the
\* text part.
RECURSIVE read_images_newest_first(_, _)
read_images_newest_first(images, parts) ==
    IF images = <<>> THEN [ok |-> TRUE, parts |-> parts]
    ELSE LET bytes == fs_read(Head(images)) IN
         IF ~IsSome(bytes) THEN [ok |-> FALSE, parts |-> parts]
         ELSE LET mime_type == IF IsSome(infer_get(Unwrap(bytes)))
                               THEN Unwrap(infer_get(Unwrap(bytes)))
                               ELSE "image/jpeg"
                  b64 == encode(Unwrap(bytes))
              IN read_images_newest_first(
                     Tail(images),
                     <<Head(parts), ImageUrlPart(mime_type, b64)>> \o Tail(parts))

\* The `for path in images` loop of prepare_user_message: the parts with one
\* image part per path, or the failure of the first file that cannot be read.
RECURSIVE read_images(_, _)
read_images(images, parts) ==
    IF images = <<>> THEN [ok |-> TRUE, parts |-> parts]
    ELSE LET bytes == fs_read(Head(images)) IN
         IF ~IsSome(bytes) THEN [ok |-> FALSE, parts |-> parts]
         ELSE LET mime_type == IF IsSome(infer_get(Unwrap(bytes)))
                               THEN Unwrap(infer_get(Unwrap(bytes)))
                               ELSE "image/jpeg"
                  b64 == encode(Unwrap(bytes))
              IN read_images(Tail(images), Append(parts, ImageUrlPart(mime_type, b64)))

\* prepare_user_message pushing the user message first and filling in its
\* image parts as the files are read.
prepare_user_message_push_first(msgs, prompt, images) ==
    LET read == read_images(images, <<TextPart(prompt)>>) IN
    IF ~read.ok THEN [ok |-> FALSE, err |-> Io,
                      messages |-> Append(msgs, PartsMessage("user", read.parts))]
    ELSE [ok |-> TRUE, err |-> NoError,
          messages |-> Append(msgs, PartsMessage("user", read.parts))]

\* ChatSession::prepare_user_message: the history with the user message pushed,
\* or Err(Io) and the history as it was.
prepare_user_message(msgs, prompt, images) ==
    LET read == read_images(images, <<TextPart(prompt)>>) IN
    IF ~read.ok THEN [ok |-> FALSE, err |-> Io, messages |-> msgs]
    ELSE [ok |-> TRUE, err |-> NoError,
          messages |-> Append(msgs, PartsMessage("user", read.parts))]

\* response.choices.first().and_then(|c| c.message.content.clone()).unwrap_or_default()
first_content(full) ==
    IF full.choices # <<>> /\ IsSome(Head(full.choices).message.content)
    THEN Unwrap(Head(full.choices).message.content)
    ELSE ""

\* What a call leaves and returns: the history, Ok(text) or Err(err), whether
\* the request was sent, and the messages of the request.
Outcome(msgs, ok, err, text, dispatched, request) ==
    [messages |-> msgs, ok |-> ok, err |-> err, text |-> text,
     dispatched |-> dispatched, request |-> request]

\* chat returning the content without pushing the assistant message.
chat_without_commit(msgs, prompt, images, net) ==
    LET prep == prepare_user_message(msgs, prompt, images) IN
    IF ~prep.ok THEN Outcome(prep.messages, FALSE, prep.err, "", FALSE, <<>>)
    ELSE LET resp == full_request(net) IN
         IF ~resp.ok THEN Outcome(prep.messages, FALSE, resp.err, "", TRUE, prep.messages)
         ELSE Outcome(prep.messages, TRUE, NoError, first_content(resp.value), TRUE,
                      prep.messages)

\* ChatSession::chat
chat(msgs, prompt, images, net) ==
    LET prep == prepare_user_message(msgs, prompt, images) IN
    IF ~prep.ok THEN Outcome(prep.messages, FALSE, prep.err, "", FALSE, <<>>)
    ELSE LET resp == full_request(net) IN
         IF ~resp.ok THEN Outcome(prep.messages, FALSE, resp.err, "", TRUE, prep.messages)
         ELSE LET content == first_content(resp.value) IN
              Outcome(push_text(prep.messages, "assistant", content), TRUE, NoError, content,
                      TRUE, prep.messages)

\* chat_stream sending the new user message alone instead of the history.
chat_stream_last_only(msgs, prompt, images, net) ==
    LET prep == prepare_user_message(msgs, prompt, images) IN
    IF ~prep.ok THEN Outcome(prep.messages, FALSE, prep.err, "", FALSE, <<>>)
    ELSE LET inner == stream_request(net)
             sent == <<prep.messages[Len(prep.messages)]>>
         IN
         IF ~inner.ok THEN Outcome(prep.messages, FALSE, inner.err, "", TRUE, sent)
         ELSE Outcome(prep.messages, TRUE, NoError, "", TRUE, sent)

\* ChatSession::chat_stream
chat_stream(msgs, prompt, images, net) ==
    LET prep == prepare_user_message(msgs, prompt, images) IN
    IF ~prep.ok THEN Outcome(prep.messages, FALSE, prep.err, "", FALSE, <<>>)
    ELSE LET inner == stream_request(net) IN
         IF ~inner.ok THEN Outcome(prep.messages, FALSE, inner.err, "", TRUE, prep.messages)
         ELSE Outcome(prep.messages, TRUE, NoError, "", TRUE, prep.messages)

\* commit accumulating the text of every event, Reasoning too.
commit_all_text(result, acc, msgs) ==
    IF result.poll = "Item" /\ result.item.kind \in {"Content", "Reasoning"} THEN
        [accumulated_content |-> acc \o result.item.text, messages |-> msgs]
    ELSE IF result.poll = "End" THEN
        [accumulated_content |-> "",
         messages |-> IF acc # "" THEN push_text(msgs, "assistant", acc) ELSE msgs]
    ELSE [accumulated_content |-> acc, messages |-> msgs]

\* commit pushing an assistant message for every Content item as it arrives.
commit_each_content(result, acc, msgs) ==
    IF result.poll = "Item" /\ result.item.kind = "Content" /\ result.item.text # "" THEN
        [accumulated_content |-> "",
         messages |-> push_text(msgs, "assistant", result.item.text)]
    ELSE [accumulated_content |-> acc, messages |-> msgs]

\* commit cloning the accumulated content at the end instead of taking it.
commit_keep(result, acc, msgs) ==
    IF result.poll = "Item" /\ result.item.kind = "Content" THEN
        [accumulated_content |-> acc \o result.item.text, messages |-> msgs]
    ELSE IF result.poll = "End" THEN
        [accumulated_content |-> acc,
         messages |-> IF acc # "" THEN push_text(msgs, "assistant", acc) ELSE msgs]
    ELSE [accumulated_content |-> acc, messages |-> msgs]

\* The match of ChatResponseStream::poll_next on the inner stream's result:
\* the accumulated content and the history it leaves.
commit(result, acc, msgs) ==
    IF result.poll = "Item" /\ result.item.kind = "Content" THEN
        [accumulated_content |-> acc \o result.item.text, messages |-> msgs]
    ELSE IF result.poll = "End" THEN
        [accumulated_content |-> "",
         messages |-> IF acc # "" THEN push_text(msgs, "assistant", acc) ELSE msgs]
    ELSE [accumulated_content |-> acc, messages |-> msgs]

\* returned passing on Content and errors only: a Reasoning event is withheld.
returned_without_reasoning(result) ==
    IF result.poll = "Item" /\ result.item.kind = "Reasoning" THEN Pending ELSE result

\* What ChatResponseStream::poll_next returns for the inner stream's result.
returned(result) == result

\* reset keeping the first message of the history.
reset_keep_first(msgs) == IF msgs = <<>> THEN <<>> ELSE <<Head(msgs)>>

\* ChatSession::reset
reset(msgs) == <<>>

-----------------------------------------------------------------------------
(* The local session: Session and ResponseStream of bindings.rs *)

CtxSize == 4     \* cells of the KV cache (CTX_SIZE, scaled down)
MaxPast == 6     \* a turn or a pull starts only while n_past is below this
MaxPulls == 3    \* tokens one ResponseStream samples

\* A turn on the local session: the image paths, and whether the prompt
\* contains the media marker.
LocalTurn(images, marker) == [images |-> images, marker |-> marker]
LocalTurns ==
    { LocalTurn(<<>>, FALSE),
      LocalTurn(<<"island.png">>, FALSE),
      LocalTurn(<<"island.png">>, TRUE),
      LocalTurn(<<"missing.png">>, FALSE),
      LocalTurn(<<>>, TRUE) }

\* The tokens the sampler may pick: an end-of-generation token, a token with
\* a text, and a token token_to_str fails on.
Tokens == {"eog", "hello", "bad"}

\* LlamaModel::is_eog_token
is_eog_token(token) == token = "eog"

\* LlamaModel::token_to_str
token_to_str(token) == IF token = "bad" THEN None ELSE Some(token)

\* MtmdBitmap::from_file for every path: whether all files are images that load.
load_bitmaps(images) ==
    \A i \in 1..Len(images) :
        IsSome(fs_read(images[i])) /\ IsSome(infer_get(Unwrap(fs_read(images[i]))))

\* The number of media markers in full_prompt: one is prepended if there are
\* bitmaps and the prompt has none.
markers_of(turn) == IF turn.marker \/ turn.images # <<>> THEN 1 ELSE 0

\* MtmdContext::tokenize: the positions each chunk takes, text and image
\* chunks in turn, or None if markers and bitmaps do not match in number.
tokenize(turn) ==
    IF markers_of(turn) # Len(turn.images) THEN None
    ELSE IF turn.images = <<>> THEN Some(<<1>>)
    ELSE Some(<<1, 2, 1>>)

\* The positions from..(from + n - 1).
Positions(from, n) == from..(from + n - 1)

\* MtmdInputChunks::eval_chunks: the chunks are decoded in order from n_past;
\* a chunk fails if the cache has no room for it or if its decode fails
\* (fail_at names that chunk, 0 none). The new n_past, or the failure, with
\* the cache as the chunks decoded so far leave it.
RECURSIVE eval_chunks(_, _, _, _)
eval_chunks(chunks, kv, from, fail_at) ==
    IF chunks = <<>> THEN [ok |-> TRUE, n_past |-> from, kv_cache |-> kv]
    ELSE IF fail_at = 1 \/ Cardinality(kv \cup Positions(from, Head(chunks))) > CtxSize
         THEN [ok |-> FALSE, n_past |-> from, kv_cache |-> kv]
         ELSE eval_chunks(Tail(chunks), kv \cup Positions(from, Head(chunks)),
                          from + Head(chunks), fail_at - 1)

\* Session_stream_chat evaluating the prompt from position 0.
Session_stream_chat_from_zero(past, kv, turn, fail_at) ==
    IF ~load_bitmaps(turn.images) \/ ~IsSome(tokenize(turn)) THEN
        [ok |-> FALSE, n_past |-> past, kv_cache |-> kv, start |-> past]
    ELSE LET eval == eval_chunks(Unwrap(tokenize(turn)), kv, 0, fail_at) IN
         IF ~eval.ok THEN
             [ok |-> FALSE, n_past |-> past, kv_cache |-> eval.kv_cache, start |-> 0]
         ELSE [ok |-> TRUE, n_past |-> eval.n_past, kv_cache |-> eval.kv_cache, start |-> 0]

\* Session::stream_chat: n_past and the cache it leaves, whether it returns a
\* ResponseStream, and the n_past it evaluated the prompt from.
Session_stream_chat(past, kv, turn, fail_at) ==
    IF ~load_bitmaps(turn.images) \/ ~IsSome(tokenize(turn)) THEN
        [ok |-> FALSE, n_past |-> past, kv_cache |-> kv, start |-> past]
    ELSE LET eval == eval_chunks(Unwrap(tokenize(turn)), kv, past, fail_at) IN
         IF ~eval.ok THEN
             [ok |-> FALSE, n_past |-> past, kv_cache |-> eval.kv_cache, start |-> past]
         ELSE [ok |-> TRUE, n_past |-> eval.n_past, kv_cache |-> eval.kv_cache, start |-> past]

\* What one pull leaves and returns: "end" is None, "piece" Some(Ok(text)),
\* "err" Some(Err(_)); sampled is whether the sampler was run.
Pull(past, kv, done, accepted, result, text, sampled, decoded) ==
    [n_past |-> past, kv_cache |-> kv, is_done |-> done, sampler |-> accepted,
     result |-> result, text |-> text, sampled |-> sampled, decoded |-> decoded]

\* ResponseStream_next without the test of is_done.
ResponseStream_next_resample(past, kv, done, accepted, token, decode_ok) ==
    IF is_eog_token(token) THEN
        Pull(past, kv, TRUE, Append(accepted, token), "end", "", TRUE, FALSE)
    ELSE IF ~IsSome(token_to_str(token)) THEN
        Pull(past, kv, done, Append(accepted, token), "err", "", TRUE, FALSE)
    ELSE IF ~decode_ok \/ Cardinality(kv \cup {past}) > CtxSize THEN
        Pull(past + 1, kv, done, Append(accepted, token), "err", "", TRUE, TRUE)
    ELSE Pull(past + 1, kv \cup {past}, done, Append(accepted, token), "piece",
              Unwrap(token_to_str(token)), TRUE, TRUE)

\* ResponseStream_next decoding the token before it looks for the end of
\* generation.
ResponseStream_next_decode_first(past, kv, done, accepted, token, decode_ok) ==
    IF done THEN Pull(past, kv, done, accepted, "end", "", FALSE, FALSE)
    ELSE IF ~IsSome(token_to_str(token)) THEN
        Pull(past, kv, done, Append(accepted, token), "err", "", TRUE, FALSE)
    ELSE IF ~decode_ok \/ Cardinality(kv \cup {past}) > CtxSize THEN
        Pull(past + 1, kv, done, Append(accepted, token), "err", "", TRUE, TRUE)
    ELSE IF is_eog_token(token) THEN
        Pull(past + 1, kv \cup {past}, TRUE, Append(accepted, token), "end", "", TRUE, TRUE)
    ELSE Pull(past + 1, kv \cup {past}, done, Append(accepted, token), "piece",
              Unwrap(token_to_str(token)), TRUE, TRUE)

\* ResponseStream::next. `token` is what the sampler picks, `decode_ok`
\* whether the decode of the token succeeds if the cache has room.
ResponseStream_next(past, kv, done, accepted, token, decode_ok) ==
    IF done THEN Pull(past, kv, done, accepted, "end", "", FALSE, FALSE)
    ELSE IF is_eog_token(token) THEN
        Pull(past, kv, TRUE, Append(accepted, token), "end", "", TRUE, FALSE)
    ELSE IF ~IsSome(token_to_str(token)) THEN
        Pull(past, kv, done, Append(accepted, token), "err", "", TRUE, FALSE)
    ELSE IF ~decode_ok \/ Cardinality(kv \cup {past}) > CtxSize THEN
        Pull(past + 1, kv, done, Append(accepted, token), "err", "", TRUE, TRUE)
    ELSE Pull(past + 1, kv \cup {past}, done, Append(accepted, token), "piece",
              Unwrap(token_to_str(token)), TRUE, TRUE)

\* Session_reset setting n_past to zero without clearing the cache.
Session_reset_keep_cache(past, kv) == [n_past |-> 0, kv_cache |-> kv]

\* Session::reset: n_past and the cache it leaves.
Session_reset(past, kv) == [n_past |-> 0, kv_cache |-> {}]

\* The last operation on the local session: what it returned, the token a
\* pull sampled, whether it sampled and decoded, n_past and the cache before
\* it, and the n_past a prompt was evaluated from.
LocalOp(op, result, token, sampled, decoded, start) ==
    [op |-> op, result |-> result, token |-> token, sampled |-> sampled,
     decoded |-> decoded, n_before |-> n_past, kv_before |-> kv_cache, start |-> start]

InitLocal ==
    /\ n_past = 0
    /\ kv_cache = {}
    /\ is_done = FALSE
    /\ sampler = <<>>
    /\ local_phase = "idle"
    /\ local_last = [op |-> "none", result |-> "none", token |-> "", sampled |-> FALSE,
                     decoded |-> FALSE, n_before |-> 0, kv_before |-> {}, start |-> 0]
    /\ stream_base = 0
    /\ yielded = <<>>

\* session.stream_chat(prompt, images)
LocalStreamChat ==
    /\ local_phase = "idle"
    /\ n_past < MaxPast
    /\ \E turn \in LocalTurns, fail_at \in 0..3 :
          LET out == Session_stream_chat(n_past, kv_cache, turn, fail_at) IN
          /\ n_past' = out.n_past
          /\ kv_cache' = out.kv_cache
          /\ local_phase' = IF out.ok THEN "streaming" ELSE "idle"
          /\ local_last' = LocalOp("stream_chat", IF out.ok THEN "stream" ELSE "err",
                                   "", FALSE, FALSE, out.start)
          /\ stream_base' = out.n_past
    /\ is_done' = FALSE
    /\ sampler' = <<>>
    /\ yielded' = <<>>
    /\ UNCHANGED remoteVars

\* stream.next()
LocalNext ==
    /\ local_phase = "streaming"
    /\ n_past < MaxPast
    /\ Len(sampler) < MaxPulls
    /\ \E token \in Tokens, decode_ok \in BOOLEAN :
          LET out == ResponseStream_next(n_past, kv_cache, is_done, sampler, token, decode_ok) IN
          /\ n_past' = out.n_past
          /\ kv_cache' = out.kv_cache
          /\ is_done' = out.is_done
          /\ sampler' = out.sampler
          /\ yielded' = IF out.result = "piece" THEN Append(yielded, out.text) ELSE yielded
          /\ local_last' = LocalOp("next", out.result, IF out.sampled THEN token ELSE "",
                                   out.sampled, out.decoded, 0)
    /\ UNCHANGED <<local_phase, stream_base>>
    /\ UNCHANGED remoteVars

\* The caller drops the ResponseStream: the borrow of the session ends.
LocalDrop ==
    /\ local_phase = "streaming"
    /\ local_phase' = "idle"
    /\ local_last' = LocalOp("drop", "none", "", FALSE, FALSE, 0)
    /\ UNCHANGED <<n_past, kv_cache, is_done, sampler, stream_base, yielded>>
    /\ UNCHANGED remoteVars

\* session.reset()
LocalReset ==
    /\ local_phase = "idle"
    /\ n_past' = Session_reset(n_past, kv_cache).n_past
    /\ kv_cache' = Session_reset(n_past, kv_cache).kv_cache
    /\ local_last' = LocalOp("reset", "none", "", FALSE, FALSE, 0)
    /\ UNCHANGED <<is_done, sampler, local_phase, stream_base, yielded>>
    /\ UNCHANGED remoteVars

-----------------------------------------------------------------------------
(* The state machine *)

NoCall == [op |-> "none", ok |-> TRUE, err |-> NoError, text |-> "", dispatched |-> FALSE]
Call(op, out) ==
    [op |-> op, ok |-> out.ok, err |-> out.err, text |-> out.text, dispatched |-> out.dispatched]

\* The arguments of a call, the messages of its request, and whether it
\* follows a reset() directly: "no", or "turns" if the reset discarded
\* messages and "empty" if it did not.
Asked(turn, request, afterReset) ==
    [prompt |-> turn.prompt, images |-> turn.images, request |-> request,
     afterReset |-> afterReset]
NotAsked == Asked(Turn("", <<>>), <<>>, "no")
AfterReset == IF last.op # "reset" THEN "no" ELSE IF before # <<>> THEN "turns" ELSE "empty"

Init ==
    /\ InitLocal
    /\ call = NotAsked
    /\ messages = <<>>
    /\ phase = "idle"
    /\ inner_pc = "done"
    /\ inner_pending = ""
    /\ accumulated_content = ""
    /\ before = <<>>
    /\ response = NoExchange
    /\ last = NoCall
    /\ lines = <<>>
    /\ emitted = <<>>
    /\ emittedSrc = <<>>
    /\ observed = <<>>
    /\ ends = 0

NoStream ==
    /\ inner_pc' = "done"
    /\ inner_pending' = ""
    /\ accumulated_content' = ""
    /\ lines' = <<>>
    /\ emitted' = <<>>
    /\ emittedSrc' = <<>>
    /\ observed' = <<>>
    /\ ends' = 0

\* session.chat(prompt).images(images).call().await
Chat ==
    /\ phase = "idle"
    /\ Len(messages) < MaxMsgs
    /\ \E turn \in Turns, net \in FullExchanges :
          LET out == chat(messages, turn.prompt, turn.images, net) IN
          /\ messages' = out.messages
          /\ before' = messages
          /\ response' = IF out.dispatched THEN net ELSE NoExchange
          /\ last' = Call("chat", out)
          /\ call' = Asked(turn, out.request, AfterReset)
    /\ NoStream
    /\ UNCHANGED phase
    /\ UNCHANGED localVars

\* session.chat_stream(prompt).images(images).call().await
ChatStreamOn(limit) ==
    /\ phase = "idle"
    /\ Len(messages) < limit
    /\ \E turn \in Turns, net \in StreamExchanges :
          LET out == chat_stream(messages, turn.prompt, turn.images, net) IN
          /\ messages' = out.messages
          /\ before' = messages
          /\ response' = IF out.dispatched THEN net ELSE NoExchange
          /\ last' = Call("chat_stream", out)
          /\ call' = Asked(turn, out.request, AfterReset)
          /\ phase' = IF out.ok THEN "streaming" ELSE "idle"
          /\ inner_pc' = IF out.ok THEN "lines" ELSE "done"
    /\ inner_pending' = ""
    /\ accumulated_content' = ""
    /\ lines' = <<>>
    /\ emitted' = <<>>
    /\ emittedSrc' = <<>>
    /\ observed' = <<>>
    /\ ends' = 0
    /\ UNCHANGED localVars

ChatStream == ChatStreamOn(MaxMsgs)

\* What next_line() may give when the generator asks for a line.
Reads(alphabet, max) ==
    IF inner_pc = "lines"
    THEN {ReadEof, ReadErr}
         \cup (IF Len(lines) < max THEN {ReadLine(l) : l \in alphabet} ELSE {})
    ELSE {ReadEof}

\* stream.next().await, one poll of it
PollNextOver(alphabet, max) ==
    /\ phase = "streaming"
    /\ ends < MaxEnds
    /\ \E rd \in Reads(alphabet, max) :
          LET gen == inner_poll(inner_pc, inner_pending, rd)
              took == inner_pc = "lines" /\ rd.t = "line"
              read == IF took THEN Append(lines, rd.line) ELSE lines
              after == commit(gen.result, accumulated_content, messages)
              ret == returned(gen.result)
          IN
          /\ inner_pc' = gen.pc
          /\ inner_pending' = gen.pending
          /\ lines' = read
          /\ emitted' = IF gen.result.poll = "Item"
                        THEN Append(emitted, gen.result.item) ELSE emitted
          /\ emittedSrc' = IF gen.result.poll = "Item"
                           THEN Append(emittedSrc, IF inner_pc = "lines" /\ ~took
                                                   THEN 0 ELSE Len(read))
                           ELSE emittedSrc
          /\ accumulated_content' = after.accumulated_content
          /\ messages' = after.messages
          /\ observed' = IF ret.poll = "Item" THEN Append(observed, ret.item) ELSE observed
          /\ ends' = IF ret.poll = "End" THEN ends + 1 ELSE ends
          /\ last' = [op |-> "poll", ok |-> ret.poll # "Item" \/ ret.item.kind # "Err",
                      err |-> ret.item.err, text |-> ret.item.text, dispatched |-> FALSE]
    /\ UNCHANGED <<phase, before, response, call>>
    /\ UNCHANGED localVars

PollNext == PollNextOver(SessionLines, MaxLines)

\* DropStream with a destructor that pushes what has been accumulated.
DropStream_flush ==
    /\ phase = "streaming"
    /\ phase' = "idle"
    /\ messages' = IF accumulated_content # ""
                   THEN push_text(messages, "assistant", accumulated_content)
                   ELSE messages
    /\ last' = [op |-> "drop", ok |-> TRUE, err |-> NoError, text |-> "", dispatched |-> FALSE]
    /\ UNCHANGED <<inner_pc, inner_pending, accumulated_content, before,
                   response, lines, emitted, emittedSrc, observed, ends, call>>
    /\ UNCHANGED localVars

\* The caller drops the ChatResponseStream: the borrow of the session ends.
DropStream ==
    /\ phase = "streaming"
    /\ phase' = "idle"
    /\ last' = [op |-> "drop", ok |-> TRUE, err |-> NoError, text |-> "", dispatched |-> FALSE]
    /\ UNCHANGED <<messages, inner_pc, inner_pending, accumulated_content, before,
                   response, lines, emitted, emittedSrc, observed, ends, call>>
    /\ UNCHANGED localVars

\* session.reset()
Reset ==
    /\ phase = "idle"
    /\ messages' = reset(messages)
    /\ before' = messages
    /\ response' = NoExchange
    /\ last' = [op |-> "reset", ok |-> TRUE, err |-> NoError, text |-> "", dispatched |-> FALSE]
    /\ call' = NotAsked
    /\ NoStream
    /\ UNCHANGED phase
    /\ UNCHANGED localVars

Next == Chat \/ ChatStream \/ PollNext \/ DropStream \/ Reset

Spec == Init /\ [][Next]_vars

\* One streamed call at a time on an empty history, over every kind of line.
FirstStream == ChatStreamOn(1)
PollBody == PollNextOver(LineAlphabet, MaxBody)
NextStream == FirstStream \/ PollBody \/ DropStream \/ Reset

SpecStream == Init /\ [][NextStream]_vars

\* The local session alone.
NextLocal == LocalStreamChat \/ LocalNext \/ LocalDrop \/ LocalReset

SpecLocal == Init /\ [][NextLocal]_vars

\* The two sessions share no state. A run drives the remote session, or the
\* local session, or it moves on to the local session when the first turn of
\* the remote session, chat("p") answered "hi", has been reset.
FirstTurnReset ==
    /\ last.op = "reset"
    /\ before = chat(<<>>, "p", <<>>,
                     Exchange(TRUE, 200, TRUE, "{..}",
                              Some(ChatFullResponse(<<FullChoice(Some("hi"))>>)))).messages
RemoteRuns == local_last.op = "none"
LocalRuns == last.op = "none" \/ FirstTurnReset
NextReset ==
    \/ RemoteRuns /\ Chat
    \/ RemoteRuns /\ ChatStream
    \/ RemoteRuns /\ PollNext
    \/ RemoteRuns /\ DropStream
    \/ RemoteRuns /\ Reset
    \/ LocalRuns /\ LocalStreamChat
    \/ LocalRuns /\ LocalNext
    \/ LocalRuns /\ LocalDrop
    \/ LocalRuns /\ LocalReset

SpecReset == Init /\ [][NextReset]_vars

\* prepare_user_message alone, on a new session: one call for every prompt
\* and every list of image paths.
Prompts == {"p", ""}
Paths == {"island.png", "notes.bin", "photo.jpg", "missing.png"}
ImageLists == UNION {[1..n -> Paths] : n \in 0..MaxImages}

InitPrepare ==
    /\ InitLocal
    /\ \E prompt \in Prompts, images \in ImageLists :
          call = Asked(Turn(prompt, images), <<>>, "no")
    /\ messages = <<>>
    /\ phase = "idle"
    /\ inner_pc = "done"
    /\ inner_pending = ""
    /\ accumulated_content = ""
    /\ before = <<>>
    /\ response = NoExchange
    /\ last = NoCall
    /\ lines = <<>>
    /\ emitted = <<>>
    /\ emittedSrc = <<>>
    /\ observed = <<>>
    /\ ends = 0

\* self.prepare_user_message(prompt, images).await
PrepareUserMessage ==
    /\ last.op = "none"
    /\ LET out == prepare_user_message(messages, call.prompt, call.images) IN
          /\ messages' = out.messages
          /\ last' = Call("prepare_user_message",
                          Outcome(out.messages, out.ok, out.err, "", FALSE, <<>>))
    /\ before' = messages
    /\ UNCHANGED <<phase, response, call, inner_pc, inner_pending, accumulated_content,
                   lines, emitted, emittedSrc, observed, ends>>
    /\ UNCHANGED localVars

SpecPrepare == InitPrepare /\ [][PrepareUserMessage]_vars

-----------------------------------------------------------------------------
(* Properties *)

\* The number of assistant messages in a history.
Assistants(msgs) == Cardinality({i \in 1..Len(msgs) : msgs[i].role = "assistant"})

\* The texts of the Content items among `items`, in order.
RECURSIVE ContentTexts(_)
ContentTexts(items) ==
    IF items = <<>> THEN <<>>
    ELSE (IF Head(items).kind = "Content" THEN <<Head(items).text>> ELSE <<>>)
         \o ContentTexts(Tail(items))

\* The concatenation of a sequence of strings.
RECURSIVE Concat(_)
Concat(texts) == IF texts = <<>> THEN "" ELSE Head(texts) \o Concat(Tail(texts))

HasKind(items, kind) == \E i \in 1..Len(items) : items[i].kind = kind

\* The last call was a chat or chat_stream whose request was sent and failed.
BackendCallFailed == last.op \in {"chat", "chat_stream"} /\ last.dispatched /\ ~last.ok

\* The history is the one before the call plus the call's user message.
OnlyUserAdded ==
    /\ Len(messages) = Len(before) + 1
    /\ SubSeq(messages, 1, Len(before)) = before
    /\ messages[Len(messages)].role = "user"

\* The history is the one before the call plus the call's user message and
\* one assistant message of the given text.
UserAndAssistantAdded(text) ==
    /\ Len(messages) = Len(before) + 2
    /\ SubSeq(messages, 1, Len(before)) = before
    /\ messages[Len(before) + 1].role = "user"
    /\ messages[Len(before) + 2] = TextMessage("assistant", text)

\* The state belongs to a streamed call: its stream is live or was dropped.
OfStream == last.op \in {"poll", "drop"} \/ (last.op = "chat_stream" /\ last.ok)

\* The stream returned end-of-stream and no item before it was an error.
Exhausted == OfStream /\ ends >= 1 /\ ~HasKind(observed, "Err")

\* C1: after a chat or chat_stream whose backend call failed, the history is
\* the history before the call.
C1_FailedCallLeavesHistory == BackendCallFailed => messages = before

\* C2: once a stream has delivered Content and then an error item, no
\* assistant message is appended for the call, however it is polled afterwards.
C2_NoCommitAfterFailure ==
    (OfStream /\ HasKind(observed, "Content") /\ HasKind(observed, "Err"))
        => Assistants(messages) = Assistants(before)

\* C3 as stated: a stream drained to exhaustion with Content fragments c1..cn,
\* n >= 1, appends exactly one assistant message, of text c1..cn.
C3_ExhaustedCommitsConcat ==
    (Exhausted /\ ContentTexts(observed) # <<>>)
        => UserAndAssistantAdded(Concat(ContentTexts(observed)))

\* C3 as amended: a stream drained to exhaustion with Content fragments c1..cn,
\* n >= 1, appends exactly one assistant message, of text c1..cn, if that text
\* is not empty, and appends no assistant message if it is empty; Reasoning
\* fragments are no part of the text.
C3_ExhaustedCommitsNonEmptyConcat ==
    (Exhausted /\ ContentTexts(observed) # <<>>)
        => IF Concat(ContentTexts(observed)) # ""
           THEN UserAndAssistantAdded(Concat(ContentTexts(observed)))
           ELSE OnlyUserAdded

C3_Witness ==
    /\ Exhausted
    /\ Len(ContentTexts(observed)) >= 2
    /\ HasKind(observed, "Reasoning")
    /\ Assistants(messages) = Assistants(before) + 1

\* C4: however often a stream is polled, also after it returned end-of-stream,
\* at most one assistant message is appended for the call.
C4_AtMostOneCommit == OfStream => Assistants(messages) <= Assistants(before) + 1

C4_Witness == OfStream /\ ends >= 2 /\ Assistants(messages) = Assistants(before) + 1

\* C5: a stream dropped before it returned end-of-stream has appended no
\* assistant message, whatever Content it delivered.
C5_DropCommitsNothing == (last.op = "drop" /\ ends = 0) => OnlyUserAdded

C5_Witness ==
    /\ last.op = "drop"
    /\ ends = 0
    /\ Len(ContentTexts(observed)) >= 2
    /\ accumulated_content # ""

\* C6: no item, event or error, comes from a line that follows `data: [DONE]`.
C6_DoneEndsSequence ==
    \A j \in 1..Len(lines) : \A i \in 1..Len(emitted) :
        trim(lines[j]) = DoneLine => emittedSrc[i] <= j

\* A `data: ` line whose payload is no JSON of a ChatChunk.
Malformed(line) ==
    trim(line).prefix = "data: " /\ trim(line) # DoneLine /\ ~IsSome(line.chunk)

\* C7: a malformed `data: ` line gives exactly one error item, the last item
\* of the sequence, and no line after it is decoded.
C7_MalformedTerminates ==
    \A j \in 1..Len(lines) :
        Malformed(lines[j]) =>
            /\ j = Len(lines)
            /\ emitted # <<>>
            /\ emitted[Len(emitted)] = ErrItem(Json)
            /\ {i \in 1..Len(emitted) : emittedSrc[i] = j} = {Len(emitted)}
            /\ inner_pc \in {"failed", "done"}

C7_Witness ==
    /\ Len(lines) >= 2
    /\ Malformed(lines[Len(lines)])
    /\ HasKind(emitted, "Content")
    /\ ends >= 2

\* A body of blank lines and `data: ` lines of ChatChunk JSON, which
\* `data: [DONE]` may end.
WellFormed(body) ==
    \A j \in 1..Len(body) :
        \/ is_empty(trim(body[j]))
        \/ trim(body[j]).prefix = "data: " /\ IsSome(body[j].chunk)
        \/ trim(body[j]) = DoneLine /\ j = Len(body)

\* The events of one delta: its reasoning_content, then its content.
EventsOfDelta(delta) ==
    (IF IsSome(delta.reasoning_content)
     THEN <<Reasoning(Unwrap(delta.reasoning_content))>> ELSE <<>>)
    \o (IF IsSome(delta.content) THEN <<Content(Unwrap(delta.content))>> ELSE <<>>)

\* The events of the first choices of the body's `data: ` lines, in order.
RECURSIVE EventsOfBody(_)
EventsOfBody(body) ==
    IF body = <<>> THEN <<>>
    ELSE (IF IsSome(Head(body).chunk) /\ Unwrap(Head(body).chunk).choices # <<>>
          THEN EventsOfDelta(Unwrap(Head(body).chunk).choices[1].delta)
          ELSE <<>>)
         \o EventsOfBody(Tail(body))

IsPrefix(s, t) == Len(s) <= Len(t) /\ s = SubSeq(t, 1, Len(s))

\* C8: of a well-formed body read without error, the items emitted so far are
\* the first of the events of its deltas, and all of them once the stream ends.
C8_EventsOfDeltas ==
    (OfStream /\ WellFormed(lines) /\ ~HasKind(emitted, "Err"))
        => /\ IsPrefix(emitted, EventsOfBody(lines))
           /\ inner_pc = "lines" => emitted = EventsOfBody(lines)
           /\ inner_pc = "done" => emitted = EventsOfBody(lines)

C8_Witness ==
    /\ OfStream
    /\ inner_pc = "done"
    /\ Len(lines) >= 3
    /\ WellFormed(lines)
    /\ lines[Len(lines)] = DoneLine
    /\ \E j \in 1..Len(lines) : is_empty(trim(lines[j]))
    /\ \E i \in 1..(Len(emitted) - 1) :
          /\ emitted[i].kind = "Reasoning"
          /\ emitted[i + 1].kind = "Content"
          /\ emittedSrc[i] = emittedSrc[i + 1]

\* C9: the items ChatResponseStream returns are the items of the stream it
\* wraps, in order, and until it returns end-of-stream the history is the one
\* the request was made with.
C9_WrapperTransparent ==
    OfStream => /\ observed = emitted
                /\ ends = 0 => OnlyUserAdded

C9_Witness ==
    /\ OfStream
    /\ ends >= 1
    /\ HasKind(observed, "Reasoning")
    /\ HasKind(observed, "Content")
    /\ HasKind(observed, "Err")

\* The last call was a chat or chat_stream that got a non-2xx response.
GotErrorStatus ==
    /\ last.op \in {"chat", "chat_stream"}
    /\ last.dispatched
    /\ response.sent
    /\ response.status \notin 200..299

\* C10 as stated: a non-2xx response gives the Api error of its status and
\* body, and no stream.
C10_ApiErrorCarriesBody ==
    GotErrorStatus => /\ ~last.ok
                      /\ last.err = Api(response.status, response.text)
                      /\ phase = "idle"
                      /\ emitted = <<>>

\* C10 as amended: a non-2xx response gives the Api error of its status and of
\* its body, or of the empty body if the body cannot be read, and no stream.
C10_ApiErrorCarriesReadableBody ==
    GotErrorStatus => /\ ~last.ok
                      /\ last.err.kind = "Api"
                      /\ last.err.status = response.status
                      /\ response.readable => last.err.body = response.text
                      /\ ~response.readable => last.err.body = ""
                      /\ phase = "idle"
                      /\ emitted = <<>>

C10_Witness ==
    /\ last.op = "chat_stream"
    /\ response.status = 500
    /\ last.err = Api(500, "overloaded")
    /\ phase = "idle"

\* The last call was a chat that got a 2xx response whose body is the JSON of
\* a ChatFullResponse without choices[0].message.content.
GotNoContent ==
    /\ last.op = "chat"
    /\ last.dispatched
    /\ response.sent
    /\ response.status \in 200..299
    /\ response.readable
    /\ IsSome(response.full)
    /\ \/ Unwrap(response.full).choices = <<>>
       \/ ~IsSome(Unwrap(response.full).choices[1].message.content)

\* C11: a chat whose 2xx response has no choices[0].message.content returns
\* an error and appends no assistant message.
C11_NoContentIsError ==
    GotNoContent => ~last.ok /\ Assistants(messages) = Assistants(before)

\* A path of the call's images names a file that cannot be read.
UnreadableImage == \E i \in 1..Len(call.images) : ~IsSome(fs_read(call.images[i]))

\* C12: a chat or chat_stream with an image file that cannot be read returns
\* an IO error, sends no request and leaves the history as it was.
C12_ImageErrorLeavesHistory ==
    (last.op \in {"chat", "chat_stream"} /\ UnreadableImage)
        => /\ ~last.ok
           /\ last.err = Io
           /\ ~last.dispatched
           /\ call.request = <<>>
           /\ response = NoExchange
           /\ messages = before
           /\ phase = "idle"

C12_Witness ==
    /\ last.op = "chat_stream"
    /\ Len(call.images) >= 2
    /\ IsSome(fs_read(call.images[1]))
    /\ UnreadableImage
    /\ before # <<>>

\* The message is a user message made for the call's prompt and images.
UserMessageOfCall(msg) ==
    /\ msg.role = "user"
    /\ Len(msg.parts) = 1 + Len(call.images)
    /\ msg.parts[1] = TextPart(call.prompt)

\* C13: a successful chat extends the history by the call's user message and
\* one assistant message, whose text is the string returned.
C13_ChatAddsTurn ==
    (last.op = "chat" /\ last.ok)
        => /\ Len(messages) = Len(before) + 2
           /\ SubSeq(messages, 1, Len(before)) = before
           /\ UserMessageOfCall(messages[Len(before) + 1])
           /\ messages[Len(before) + 2] = TextMessage("assistant", last.text)

C13_Witness ==
    /\ last.op = "chat"
    /\ last.ok
    /\ last.text = "yo"
    /\ call.images # <<>>
    /\ Len(before) >= 2

\* C14: after reset() the remote session's history is empty, and after the
\* local session's reset() n_past is 0 and the KV cache holds nothing.
C14_ResetClears ==
    /\ last.op = "reset" => messages = <<>>
    /\ local_last.op = "reset" => n_past = 0 /\ kv_cache = {}

C14_Witness ==
    /\ last.op = "reset"
    /\ Assistants(before) >= 1
    /\ local_last.op = "reset"
    /\ local_last.n_before >= 2
    /\ local_last.kv_before # {}
    /\ sampler # <<>>

\* C15: a successful chat made directly after reset() leaves exactly its own
\* two messages in the history, and its request holds its user message alone.
C15_TurnAfterResetStandsAlone ==
    (last.op = "chat" /\ last.ok /\ call.afterReset # "no")
        => /\ Len(messages) = 2
           /\ UserMessageOfCall(messages[1])
           /\ messages[2] = TextMessage("assistant", last.text)
           /\ call.request = <<messages[1]>>

C15_Witness ==
    /\ last.op = "chat"
    /\ last.ok
    /\ call.afterReset = "turns"
    /\ call.images # <<>>

\* C16: the messages of a request are the history the call found, in order,
\* followed by the call's user message.
C16_RequestIsHistory ==
    (last.op \in {"chat", "chat_stream"} /\ last.dispatched)
        => /\ Len(call.request) = Len(before) + 1
           /\ SubSeq(call.request, 1, Len(before)) = before
           /\ UserMessageOfCall(call.request[Len(call.request)])

C16_Witness ==
    /\ last.op = "chat_stream"
    /\ last.dispatched
    /\ call.afterReset = "no"
    /\ Len(before) >= 2
    /\ before[1].role = "user"
    /\ before[2].role = "assistant"
    /\ before[1].parts # call.request[Len(call.request)].parts

\* A 200 response whose body is a ChatFullResponse with one choice that has
\* no content.
NoContentExchange ==
    Exchange(TRUE, 200, TRUE, "{..}", Some(ChatFullResponse(<<FullChoice(None)>>)))

\* The stream ended without an error, having delivered Reasoning and no Content.
ReasoningOnlyCompleted ==
    /\ Exhausted
    /\ HasKind(observed, "Reasoning")
    /\ ~HasKind(observed, "Content")

\* The number of assistant messages the same call would append as a chat
\* answered by `net`.
ChatAppends(net) ==
    Assistants(chat(before, call.prompt, call.images, net).messages) - Assistants(before)

\* C17: a stream that completes with Reasoning items only appends as many
\* assistant messages as a chat whose response has no content.
C17_SameCommitPolicy ==
    ReasoningOnlyCompleted
        => Assistants(messages) - Assistants(before) = ChatAppends(NoContentExchange)

\* The last operation was a pull on which the sampler picked an
\* end-of-generation token.
SampledEog ==
    /\ local_last.op = "next"
    /\ local_last.sampled
    /\ is_eog_token(local_last.token)

\* C18: the pull that samples an end-of-generation token returns the end of
\* the sequence, decodes nothing and leaves n_past and the cache as they were.
C18_EogStopsAtOnce ==
    SampledEog
        => /\ local_last.result = "end"
           /\ ~local_last.decoded
           /\ n_past = local_last.n_before
           /\ kv_cache = local_last.kv_before

C18_Witness ==
    /\ SampledEog
    /\ yielded # <<>>
    /\ n_past > stream_base

\* C19: during and after the pulls of a stream, n_past is its value after the
\* prompt was evaluated plus the number of fragments yielded.
C19_PastCountsYielded ==
    local_last.op \in {"next", "drop"} => n_past = stream_base + Len(yielded)

\* One step of the local session: n_past does not decrease unless the step is
\* a reset, it becomes 0 by a reset only, and a stream_chat that succeeds
\* evaluates its prompt at the positions from the n_past it found.
C20_Step ==
    /\ local_last'.op # "reset" => n_past' >= n_past
    /\ (n_past' = 0 /\ n_past # 0) => local_last'.op = "reset"
    /\ (local_last'.op = "stream_chat" /\ local_last'.result = "stream")
           => /\ local_last'.start = n_past
              /\ n_past' > n_past
              /\ kv_cache' = kv_cache \cup (n_past..(n_past' - 1))

\* C20: n_past never decreases between two resets, becomes 0 by reset() only,
\* and a follow-up turn starts at the n_past the previous turn ended with.
C20_PastMonotone == [][C20_Step]_vars

C20_Witness ==
    /\ local_last.op = "stream_chat"
    /\ local_last.result = "stream"
    /\ local_last.start >= 2
    /\ n_past > local_last.start

\* The bytes a sequence of base64 sextets stands for (64 is the padding).
RECURSIVE b64_bytes(_)
b64_bytes(sextets) ==
    IF Len(sextets) < 4 THEN <<>>
    ELSE LET a == sextets[1]
             b == sextets[2]
             c == sextets[3]
             d == sextets[4]
         IN (IF c = 64 THEN <<a * 4 + b \div 16>>
             ELSE IF d = 64 THEN <<a * 4 + b \div 16, (b % 16) * 16 + c \div 4>>
             ELSE <<a * 4 + b \div 16, (b % 16) * 16 + c \div 4, (c % 4) * 64 + d>>)
            \o b64_bytes(SubSeq(sextets, 5, Len(sextets)))

\* prepare_user_message was called, and it returned Ok.
Prepared == last.op = "prepare_user_message"
PreparedOk == Prepared /\ last.ok

\* The parts of the last message of the history.
LastParts == messages[Len(messages)].parts

\* C21: the user message built from prompt p and images i1..in has the parts
\* Text(p), Image(i1), ..., Image(in), in this order.
C21_PartsInInputOrder ==
    PreparedOk
        => /\ Len(messages) = Len(before) + 1
           /\ messages[Len(messages)].role = "user"
           /\ Len(LastParts) = 1 + Len(call.images)
           /\ LastParts[1] = TextPart(call.prompt)
           /\ \A i \in 1..Len(call.images) :
                 /\ LastParts[i + 1].type = "image_url"
                 /\ b64_bytes(LastParts[i + 1].b64) = Unwrap(fs_read(call.images[i]))

C21_Witness ==
    /\ PreparedOk
    /\ Len(call.images) >= 3
    /\ call.images[1] # call.images[2]
    /\ call.images[2] # call.images[3]
    /\ call.images[1] # call.images[3]

\* Magic numbers of PNG and JPEG files.
PngMagic == <<137, 80, 78, 71>>
JpegMagic == <<255, 216, 255>>
StartsWith(bytes, magic) ==
    Len(bytes) >= Len(magic) /\ SubSeq(bytes, 1, Len(magic)) = magic

\* Every image path of the call names a file that can be read.
AllReadable == \A i \in 1..Len(call.images) : IsSome(fs_read(call.images[i]))

\* C22: if every image file can be read, the call returns Ok and each file
\* has an image part: bytes with a known magic number carry its MIME type
\* (image/png for a PNG header), other bytes the default image/jpeg.
C22_ReadableImageGetsMime ==
    (Prepared /\ AllReadable)
        => /\ last.ok
           /\ Len(LastParts) = 1 + Len(call.images)
           /\ \A i \in 1..Len(call.images) :
                 LET bytes == Unwrap(fs_read(call.images[i])) IN
                 /\ LastParts[i + 1].type = "image_url"
                 /\ LastParts[i + 1].mime =
                        IF StartsWith(bytes, PngMagic) THEN "image/png"
                        ELSE IF StartsWith(bytes, JpegMagic) THEN "image/jpeg"
                        ELSE "image/jpeg"

C22_Witness ==
    /\ Prepared
    /\ AllReadable
    /\ \E i, j \in 1..Len(call.images) :
          /\ call.images[i] = "island.png"
          /\ call.images[j] = "notes.bin"
    /\ \E i \in 1..Len(LastParts) : LastParts[i].mime = "image/png"

\* C23: in every state of a session driven by chat, chat_stream, polls, drops
\* and reset, each assistant message of the history directly follows a user
\* message; so the history does not begin with an assistant message.
C23_AssistantFollowsUser ==
    \A i \in 1..Len(messages) :
        messages[i].role = "assistant" => i > 1 /\ messages[i - 1].role = "user"

C23_Witness ==
    /\ last.op = "poll"
    /\ ends >= 1
    /\ Len(messages) = 4
    /\ messages[2].role = "assistant"
    /\ messages[4].role = "assistant"
    /\ Len(before) = 2

\* One step of the local session: a pull on a stream that has met an
\* end-of-generation token returns the end of the sequence, runs neither the
\* sampler nor a decode and leaves n_past, the cache and the sampler alone.
C24_Step ==
    (local_phase = "streaming" /\ is_done /\ local_last'.op = "next")
        => /\ local_last'.result = "end"
           /\ ~local_last'.sampled
           /\ ~local_last'.decoded
           /\ n_past' = n_past
           /\ kv_cache' = kv_cache
           /\ sampler' = sampler
           /\ yielded' = yielded
           /\ is_done'

\* C24: after a ResponseStream returned the end of the sequence for an
\* end-of-generation token, every later pull returns the end too, without
\* sampling, without evaluating and without changing n_past.
C24_PullsAfterEogDoNothing == [][C24_Step]_vars

C24_Witness ==
    /\ local_last.op = "next"
    /\ local_last.result = "end"
    /\ ~local_last.sampled
    /\ is_done
    /\ yielded # <<>>
    /\ sampler[Len(sampler)] = "eog"

====
